---- MODULE Spec2Model ----
(***************************************************************************)
(* Model of the two TWS monitoring daemons of format37/tws_monitoring:     *)
(*   src/server/server.py   - synchronous loop, callback-based probe,      *)
(*                            transition / reminder notifications          *)
(*   src/local/monitoring.py - asyncio loop, pause windows, restart of TWS *)
(* One behaviour of Spec runs one daemon (variant), chosen in Init.        *)
(***************************************************************************)
EXTENDS Integers, Sequences, FiniteSets, TLC

VARIABLES
    variant,              \* "server" | "local": which daemon this behaviour runs
    pc,                   \* position of the daemon's main thread / task
    clock,                \* wall clock, seconds since a Monday 00:00 UTC
    cycle,                \* number of loop iterations started
    sigint,               \* a SIGINT has been delivered
    exc,                  \* exception in flight: "none" | "Exception" | "KeyError" (an Exception,
                          \* outside the loop) | "KeyboardInterrupt" | "CancelledError"
    hourly_reminder,      \* server.py config['hourly_reminder']
    previous_is_healthy,  \* server.py main: None (<<>>) or <<bool>>
    last_reminder_time,   \* server.py main
    current_time,         \* server.py main
    is_healthy,           \* main: verdict of the last probe that returned
    status_message,       \* main: message of the last probe that returned
    app_connected,        \* TWSHealthCheck.connected
    server_time,          \* TWSHealthCheck.server_time: None (<<>>) or <<t>>
    exception_queue,      \* TWSHealthCheck.exception_queue
    client_thread,        \* "none" | "running" | "dead"
    sess,                 \* the probe's API session: "none" | "open" | "closed"
    acked,                \* the peer's connection acknowledgment has been delivered
    req,                  \* the time request: "none" | "sent" | "answered"
    polls,                \* sleeps of 0.1 s done by the current polling loop
    ret,                  \* value the probe is returning: <<>> or <<[ok, msg]>>
    config,               \* main: the config dict (server.py 124-133, monitoring.py config.json)
    cancel_pending,       \* asyncio: main task cancelled, CancelledError due at next await
    stop_ok,              \* result of stop_tws_process in this cycle: <<>> or <<bool>>
    start_ok,             \* result of start_tws in this cycle: <<>> or <<bool>>
    faults,               \* history: failure modes that occurred in the current probe
    log,                  \* history: calls made in the current loop iteration
    delivered,            \* history: outcome of the last send_telegram_message
    prevVerdict,          \* history: verdict of the last earlier iteration that had one
    lastNoteStart,        \* history: start time of the last iteration that notified
    cycleStart,           \* history: start time of the current iteration
    nStopped,             \* history: number of 'stopped' notifications sent
    sinceStart,           \* history: what the local loop did since its last start_tws call
                          \* ("start", then "sleep", "healthy", "unhealthy", "stop"); <<>> before one
    slept                 \* history: the step before was a completed sleep of that many seconds

srvVars   == <<hourly_reminder, previous_is_healthy, last_reminder_time, current_time>>
verVars   == <<is_healthy, status_message>>
appVars   == <<app_connected, server_time, exception_queue, client_thread, acked, req, polls>>
probeVars == <<appVars, sess, ret, faults>>
locVars   == <<config, cancel_pending, stop_ok, start_ok>>
histVars  == <<prevVerdict, lastNoteStart, cycleStart, nStopped, sinceStart>>
vars      == <<variant, pc, clock, cycle, sigint, exc, srvVars, verVars, probeVars,
               locVars, log, delivered, histVars, slept>>

-----------------------------------------------------------------------------
(* Bounds of the model *)

\* loop iterations a behaviour may start
MaxCycles == 3
\* sleeps of 0.1 s a polling loop does before its timeout expires (timeout / 0.1 in the code)
PollLimit == 1

(* Program constants *)
normal_sleep == 60
fail_sleep == 60
timeout == 5
HourlyReminderDefault == 3600
check_interval == 60
wait_after_stop == 30

\* values of the HOURLY_REMINDER environment variable explored (seconds)
ReminderIntervals == {60, 125}

None == <<>>
Some(x) == <<x>>
\* the tuple (is_healthy, status_message) a probe returns
Verdict(ok, msg) == Some([ok |-> ok, msg |-> msg])

\* a weekday 10:00:00 UTC (Tuesday), the start instant of the server daemon
T0 == 86400 + 36000

-----------------------------------------------------------------------------
(* Notifications *)

\* outcomes of requests.get inside send_telegram_message: HTTP 200, another
\* status, or an exception; the last two are logged and swallowed
DeliveryOutcomes == {"ok", "http_error", "exception"}

Notifications == {"started", "status", "reminder", "restarting", "stopped"}

\* the token and chat_id main passes to send_telegram_message
Credentials ==
    IF variant = "server" THEN <<config.telegram_token, config.chat_id>>
                          ELSE <<config.bot_token, config.chat_id>>

\* send_telegram_message(token, chat_id, message): one outbound call, no
\* exception leaves it; the Bot API answers a request with an empty token or
\* an empty chat id with an error status
send_telegram_message(message) ==
    \E d \in DeliveryOutcomes :
        /\ d = "ok" => "" \notin {Credentials[1], Credentials[2]}
        /\ log' = Append(log, message)
        /\ delivered' = d

\* the notification calls among a sequence of logged calls
Notes(l) == SelectSeq(l, LAMBDA e : e \in Notifications)
\* those a loop iteration makes about the target's health
CycleNotes(l) == SelectSeq(l, LAMBDA e : e \in {"status", "reminder", "restarting"})
Count(l, e) == Len(SelectSeq(l, LAMBDA x : x = e))

\* the record of what happened since the last start_tws call, with event e added
Since(e) == IF sinceStart = <<>> THEN <<>> ELSE Append(sinceStart, e)

\* end of one loop iteration, a completed sleep of one check interval: what
\* the next iteration sees as its past
EndCycle ==
    /\ prevVerdict' = IF Count(log, "verdict") > 0 THEN Some(is_healthy) ELSE prevVerdict
    /\ lastNoteStart' = IF CycleNotes(log) # <<>> THEN cycleStart ELSE lastNoteStart
    /\ sinceStart' = Since("sleep")
    /\ UNCHANGED <<cycleStart, nStopped>>

-----------------------------------------------------------------------------
(* server.py: the probe, check_tws_api_health, and the TWSHealthCheck callbacks *)

ProbeTryPcs == {"p_connect", "p_thread", "p_wait_ack", "p_chk_conn", "p_req",
                "p_wait_time", "p_chk_queue", "p_chk_time"}


NoApp ==
    /\ app_connected' = FALSE
    /\ server_time' = None
    /\ exception_queue' = <<>>
    /\ client_thread' = "none"
    /\ acked' = FALSE
    /\ req' = "none"
    /\ polls' = 0

\* EClient.isConnected()
isConnected == sess = "open"

\* lines 57-59: app = TWSHealthCheck(host, port); client_thread = None
ServerProbeInit ==
    /\ variant = "server" /\ pc = "p_init"
    /\ NoApp
    /\ sess' = "none" /\ ret' = None /\ faults' = {}
    /\ log' = Append(log, "probe")
    /\ pc' = "p_connect"
    /\ UNCHANGED <<variant, clock, cycle, sigint, exc, srvVars, verVars, locVars,
                   delivered, histVars>>
    /\ slept' = 0

\* line 58 runs outside the try: an exception of the constructor leaves the probe
ServerProbeDefect ==
    /\ variant = "server" /\ pc = "p_init"
    /\ exc' = "Exception"
    /\ pc' = "s_except"
    /\ log' = Append(log, "raise")
    /\ UNCHANGED <<variant, clock, cycle, sigint, srvVars, verVars, probeVars, locVars,
                   delivered, histVars>>
    /\ slept' = 0

\* a variant with the socket.error clause alone
ServerProbeCatch_SocketOnly(kind) ==
    IF kind = "socket.error" THEN Verdict(FALSE, "Connection failed")
    ELSE None

\* the except clauses of lines 97-100, for an exception raised in the try
\* body: the verdict returned (None would mean no clause matches)
ServerProbeCatch(kind) ==
    IF kind = "socket.error" THEN Verdict(FALSE, "Connection failed")
    ELSE Verdict(FALSE, "Unexpected error")

\* an exception raised in a try body whose except clauses give r: the
\* verdict is returned through the finally, or the exception goes on
Raised(r) ==
    /\ ret' = r
    /\ exc' = IF r = None THEN "Exception" ELSE exc

\* line 63: app.connect(host, port, clientId)
ServerConnect ==
    /\ variant = "server" /\ pc = "p_connect"
    /\ \/ /\ sess' = "open"
          /\ pc' = "p_thread"
          /\ UNCHANGED <<ret, exc, faults>>
       \/ /\ sess' = "none"                              \* connection refused
          /\ Raised(ServerProbeCatch("socket.error"))
          /\ faults' = faults \cup {"refused"}
          /\ pc' = "p_finally"
       \/ /\ sess' \in {"none", "open"}                   \* another exception of the transport
          /\ Raised(ServerProbeCatch("Exception"))
          /\ faults' = faults \cup {"transport"}
          /\ pc' = "p_finally"
    /\ UNCHANGED <<variant, clock, cycle, sigint, srvVars, verVars, appVars, locVars,
                   log, delivered, histVars>>
    /\ slept' = 0

\* lines 66-70: start the client thread, start_time = time.time()
ServerStartThread ==
    /\ variant = "server" /\ pc = "p_thread"
    /\ client_thread' = "running"
    /\ polls' = 0
    /\ pc' = "p_wait_ack"
    /\ UNCHANGED <<variant, clock, cycle, sigint, exc, srvVars, verVars, app_connected,
                   server_time, exception_queue, acked, req, sess, ret, faults, locVars,
                   log, delivered, histVars>>
    /\ slept' = 0

\* a variant of the loop without its time limit: `while <waiting>: sleep(0.1)`
PollStep_NoTimeout(waiting, next) ==
    IF ~waiting
    THEN pc' = next /\ UNCHANGED <<polls, clock>>
    ELSE pc' = pc /\ polls' = (IF polls < PollLimit THEN polls + 1 ELSE polls)
         /\ UNCHANGED clock

\* a polling loop `while <waiting> and time.time() - start_time < timeout: sleep(0.1)`
\* one evaluation of the loop condition; next is the pc after the loop
PollStep(waiting, next) ==
    IF ~waiting
    THEN pc' = next /\ UNCHANGED <<polls, clock>>
    ELSE IF polls < PollLimit
         THEN pc' = pc /\ polls' = polls + 1 /\ UNCHANGED clock
         ELSE pc' = next /\ clock' = clock + timeout /\ UNCHANGED polls

\* lines 71-72
ServerWaitAck ==
    /\ variant = "server" /\ pc = "p_wait_ack"
    /\ PollStep(~app_connected, "p_chk_conn")
    /\ UNCHANGED <<variant, cycle, sigint, exc, srvVars, verVars, app_connected,
                   server_time, exception_queue, client_thread, acked, req, sess, ret,
                   faults, locVars, log, delivered, histVars>>
    /\ slept' = 0

\* lines 74-75
ServerCheckConnected ==
    /\ variant = "server" /\ pc = "p_chk_conn"
    /\ IF ~app_connected
       THEN /\ ret' = Verdict(FALSE, "Failed to establish connection")
            /\ pc' = "p_finally"
       ELSE /\ pc' = "p_req"
            /\ UNCHANGED ret
    /\ UNCHANGED <<variant, clock, cycle, sigint, exc, srvVars, verVars, appVars, sess,
                   faults, locVars, log, delivered, histVars>>
    /\ slept' = 0

\* lines 78-81: app.reqCurrentTime(); start_time = time.time()
ServerReqCurrentTime ==
    /\ variant = "server" /\ pc = "p_req"
    /\ \/ /\ req' = "sent"
          /\ polls' = 0
          /\ pc' = "p_wait_time"
          /\ UNCHANGED <<ret, exc, faults>>
       \/ /\ Raised(ServerProbeCatch("Exception"))     \* the request raises
          /\ faults' = faults \cup {"transport"}
          /\ pc' = "p_finally"
          /\ UNCHANGED <<req, polls>>
    /\ UNCHANGED <<variant, clock, cycle, sigint, srvVars, verVars, app_connected,
                   server_time, exception_queue, client_thread, acked, sess, locVars,
                   log, delivered, histVars>>
    /\ slept' = 0

\* lines 82-83
ServerWaitTime ==
    /\ variant = "server" /\ pc = "p_wait_time"
    /\ PollStep(server_time = None, "p_chk_queue")
    /\ UNCHANGED <<variant, cycle, sigint, exc, srvVars, verVars, app_connected,
                   server_time, exception_queue, client_thread, acked, req, sess, ret,
                   faults, locVars, log, delivered, histVars>>
    /\ slept' = 0

\* lines 86-90: exception_queue.get_nowait()
ServerCheckQueue ==
    /\ variant = "server" /\ pc = "p_chk_queue"
    /\ IF exception_queue # <<>>
       THEN /\ ret' = Verdict(FALSE, Head(exception_queue))
            /\ exception_queue' = Tail(exception_queue)
            /\ pc' = "p_finally"
       ELSE /\ pc' = "p_chk_time"
            /\ UNCHANGED <<ret, exception_queue>>
    /\ UNCHANGED <<variant, clock, cycle, sigint, exc, srvVars, verVars, app_connected,
                   server_time, client_thread, acked, req, polls, sess, faults, locVars,
                   log, delivered, histVars>>
    /\ slept' = 0

\* lines 92-95
ServerCheckTime ==
    /\ variant = "server" /\ pc = "p_chk_time"
    /\ ret' = IF server_time = None
              THEN Verdict(FALSE, "Failed to receive server time response")
              ELSE Verdict(TRUE, "TWS API is healthy and responsive")
    /\ pc' = "p_finally"
    /\ UNCHANGED <<variant, clock, cycle, sigint, exc, srvVars, verVars, appVars, sess,
                   faults, locVars, log, delivered, histVars>>
    /\ slept' = 0

\* a variant that disconnects on the healthy path alone
Teardown_SuccessOnly(s, r) ==
    IF s = "open" /\ r # None /\ r[1].ok THEN "closed" ELSE s

\* the session after `if isConnected(): disconnect()` in the finally clause
\* (server.py 101-104, monitoring.py 100-103); it runs whatever is being
\* returned (r) or raised (r = None)
Teardown(s, r) == IF s = "open" THEN "closed" ELSE s

\* lines 101-107, then the return of the verdict to main (line 161) or the
\* propagation of the exception in flight
ServerFinally ==
    /\ variant = "server" /\ pc = "p_finally"
    /\ sess' = Teardown(sess, ret)
    /\ NoApp
    /\ faults' = {}
    /\ IF exc = "none"
       THEN /\ is_healthy' = ret[1].ok
            /\ status_message' = ret[1].msg
            /\ log' = Append(log, "verdict")
            /\ pc' = "s_decide"
       ELSE /\ pc' = "s_except"
            /\ UNCHANGED <<verVars, log>>
    /\ ret' = None
    /\ UNCHANGED <<variant, clock, cycle, sigint, exc, srvVars, locVars, delivered, histVars>>
    /\ slept' = 0

\* TWSHealthCheck.connectAck, lines 39-42
connectAck ==
    /\ variant = "server" /\ pc \in ProbeTryPcs
    /\ sess = "open" /\ ~acked
    /\ acked' = TRUE
    /\ app_connected' = TRUE
    /\ UNCHANGED <<variant, pc, clock, cycle, sigint, exc, srvVars, verVars, server_time,
                   exception_queue, client_thread, req, polls, sess, ret, faults, locVars,
                   log, delivered, histVars, slept>>

\* TWSHealthCheck.currentTime, lines 24-27, run by the client thread
currentTime ==
    /\ variant = "server" /\ pc \in ProbeTryPcs
    /\ client_thread = "running" /\ req = "sent"
    /\ req' = "answered"
    /\ server_time' = Some(clock)
    /\ UNCHANGED <<variant, pc, clock, cycle, sigint, exc, srvVars, verVars, app_connected,
                   exception_queue, client_thread, acked, polls, sess, ret, faults, locVars,
                   log, delivered, histVars, slept>>

\* error codes the peer reports: informational, connection-related, other
ErrorCodes == {2104, 502, 504, 1100, 326, 200}

\* TWSHealthCheck.error, lines 29-37: the value of self.connected afterwards
error(error_code, connected) ==
    IF error_code \in {2104, 2106, 2158} THEN connected
    ELSE IF error_code \in {502, 504, 1100, 326} THEN FALSE
    ELSE connected

\* an error callback that changes the flag, run by the client thread. It
\* counts as a protocol error of this probe's round trip when it comes before
\* the answer to the time request
ErrorCallback ==
    /\ variant = "server" /\ pc \in ProbeTryPcs
    /\ client_thread = "running"
    /\ \E code \in ErrorCodes :
          /\ error(code, app_connected) # app_connected
          /\ app_connected' = error(code, app_connected)
    /\ faults' = IF req = "answered" THEN faults ELSE faults \cup {"error_cb"}
    /\ UNCHANGED <<variant, pc, clock, cycle, sigint, exc, srvVars, verVars, server_time,
                   exception_queue, client_thread, acked, req, polls, sess, ret, locVars,
                   log, delivered, histVars, slept>>

\* run_client, lines 44-50: app.run() raises in the client thread. The crash
\* counts as a failure of this probe when it comes before the probe has
\* looked into the queue (lines 86-90)
run_client_error ==
    /\ variant = "server" /\ pc \in ProbeTryPcs
    /\ client_thread = "running"
    /\ exception_queue' = Append(exception_queue, "Client thread error")
    /\ client_thread' = "dead"
    /\ faults' = IF pc = "p_chk_time" THEN faults ELSE faults \cup {"thread"}
    /\ UNCHANGED <<variant, pc, clock, cycle, sigint, exc, srvVars, verVars, app_connected,
                   server_time, acked, req, polls, sess, ret, locVars,
                   log, delivered, histVars, slept>>

-----------------------------------------------------------------------------
(* server.py: main *)

\* a variant that reports only the transition to unhealthy
NotifyDecision_DownOnly(prev, healthy, now, last, interval) ==
    IF prev = None \/ (prev = Some(TRUE) /\ ~healthy) THEN "status"
    ELSE IF ~healthy /\ (now - last) >= interval THEN "reminder"
    ELSE "none"

\* a variant that reminds in every unhealthy cycle
NotifyDecision_EveryCycle(prev, healthy, now, last, interval) ==
    IF prev = None \/ Some(healthy) # prev THEN "status"
    ELSE IF ~healthy THEN "reminder"
    ELSE "none"

\* a variant with a strict comparison of the elapsed time
NotifyDecision_Strict(prev, healthy, now, last, interval) ==
    IF prev = None \/ Some(healthy) # prev THEN "status"
    ELSE IF ~healthy /\ (now - last) > interval THEN "reminder"
    ELSE "none"

\* lines 168 and 176: which notification this cycle sends
NotifyDecision(prev, healthy, now, last, interval) ==
    IF prev = None \/ Some(healthy) # prev THEN "status"
    ELSE IF ~healthy /\ (now - last) >= interval THEN "reminder"
    ELSE "none"

\* dict.get(key, default), os.environ.get(key, default)
Get(d, key, default) == IF key \in DOMAIN d THEN d[key] ELSE default

\* environments explored: both credentials set, BOT_TOKEN unset, CHAT_ID
\* empty, neither set
ServerEnvs ==
    { [BOT_TOKEN |-> "token", CHAT_ID |-> "42"],
      [CHAT_ID |-> "42"],
      [BOT_TOKEN |-> "token", CHAT_ID |-> ""],
      <<>> }

\* lines 124-126: the credentials in the config dict
ServerConfig(env) ==
    [telegram_token |-> Get(env, "BOT_TOKEN", ""), chat_id |-> Get(env, "CHAT_ID", "")]

\* lines 136-139
required_vars == [BOT_TOKEN |-> "telegram_token", CHAT_ID |-> "chat_id"]

\* line 140: [env for env, key in required_vars.items() if not config[key]]
missing_vars(cfg) == {e \in DOMAIN required_vars : cfg[required_vars[e]] = ""}

\* lines 135-146: main returns when a required variable is missing
ServerValidate ==
    /\ variant = "server" /\ pc = "s_main"
    /\ pc' = IF missing_vars(config) # {} THEN "s_refused" ELSE "s_start"
    /\ UNCHANGED <<variant, clock, cycle, sigint, exc, srvVars, verVars, probeVars, locVars,
                   log, delivered, histVars>>
    /\ slept' = 0

\* lines 148-156: the 'started' notification and the initial MonitorState
ServerStartup ==
    /\ variant = "server" /\ pc = "s_start"
    /\ send_telegram_message("started")
    /\ previous_is_healthy' = None
    /\ last_reminder_time' = 0
    /\ pc' = "s_top"
    /\ UNCHANGED <<variant, clock, cycle, sigint, exc, hourly_reminder, current_time,
                   verVars, probeVars, locVars, histVars>>
    /\ slept' = 0

\* lines 158-161: current_time = time.time(), then the probe is called; the
\* loop is followed for n iterations
ServerCycleStartUpTo(n) ==
    /\ variant = "server" /\ pc = "s_top"
    /\ cycle < n
    /\ cycle' = cycle + 1
    /\ current_time' = clock
    /\ cycleStart' = clock
    /\ log' = <<>>
    /\ delivered' = "none"
    /\ pc' = "p_init"
    /\ UNCHANGED <<variant, clock, sigint, exc, hourly_reminder, previous_is_healthy,
                   last_reminder_time, verVars, probeVars, locVars,
                   prevVerdict, lastNoteStart, nStopped, sinceStart>>
    /\ slept' = 0

ServerCycleStart == ServerCycleStartUpTo(MaxCycles)

\* lines 168, 176: the branch taken
ServerDecide ==
    /\ variant = "server" /\ pc = "s_decide"
    /\ LET d == NotifyDecision(previous_is_healthy, is_healthy, current_time,
                               last_reminder_time, hourly_reminder)
       IN pc' = CASE d = "status" -> "s_send_status"
                  [] d = "reminder" -> "s_send_reminder"
                  [] OTHER -> "s_update"
    /\ UNCHANGED <<variant, clock, cycle, sigint, exc, srvVars, verVars, probeVars, locVars,
                   log, delivered, histVars>>
    /\ slept' = 0

\* a variant that counts a notification only when it was delivered
reminder_time_after_send_IfDelivered(outcome, now, last) ==
    IF outcome = "ok" THEN now ELSE last

\* lines 175 and 183: last_reminder_time = current_time, assigned after the
\* call has returned, whatever its outcome was
reminder_time_after_send(outcome, now, last) == now

\* lines 170-175
ServerSendStatus ==
    /\ variant = "server" /\ pc = "s_send_status"
    /\ send_telegram_message("status")
    /\ last_reminder_time' = reminder_time_after_send(delivered', current_time,
                                                      last_reminder_time)
    /\ pc' = "s_update"
    /\ UNCHANGED <<variant, clock, cycle, sigint, exc, hourly_reminder, previous_is_healthy,
                   current_time, verVars, probeVars, locVars, histVars>>
    /\ slept' = 0

\* lines 178-183
ServerSendReminder ==
    /\ variant = "server" /\ pc = "s_send_reminder"
    /\ send_telegram_message("reminder")
    /\ last_reminder_time' = reminder_time_after_send(delivered', current_time,
                                                      last_reminder_time)
    /\ pc' = "s_update"
    /\ UNCHANGED <<variant, clock, cycle, sigint, exc, hourly_reminder, previous_is_healthy,
                   current_time, verVars, probeVars, locVars, histVars>>
    /\ slept' = 0

\* line 185
ServerUpdate ==
    /\ variant = "server" /\ pc = "s_update"
    /\ previous_is_healthy' = Some(is_healthy)
    /\ pc' = "s_sleep"
    /\ UNCHANGED <<variant, clock, cycle, sigint, exc, hourly_reminder, last_reminder_time,
                   current_time, verVars, probeVars, locVars, log, delivered, histVars>>
    /\ slept' = 0

\* line 187
sleep_time(healthy) == IF healthy THEN normal_sleep ELSE fail_sleep

\* lines 187-189: the sleep between two cycles
ServerSleep ==
    /\ variant = "server" /\ pc = "s_sleep"
    /\ clock' = clock + sleep_time(is_healthy)
    /\ slept' = sleep_time(is_healthy)
    /\ pc' = "s_top"
    /\ EndCycle
    /\ UNCHANGED <<variant, cycle, sigint, exc, srvVars, verVars, probeVars, locVars,
                   log, delivered>>

\* a variant whose generic handler leaves the loop
ServerHandler_Fatal(e) ==
    IF e = "KeyboardInterrupt" THEN "s_kbd" ELSE "done"

\* the except clauses of the loop, lines 191 and 199: the handler entered
ServerHandler(e) ==
    IF e = "KeyboardInterrupt" THEN "s_kbd" ELSE "s_fail_sleep"

\* a variant whose handlers start the bookkeeping afresh
ServerExcept_Reset ==
    /\ variant = "server" /\ pc = "s_except"
    /\ pc' = ServerHandler(exc)
    /\ exc' = "none"
    /\ previous_is_healthy' = None
    /\ last_reminder_time' = 0
    /\ UNCHANGED <<variant, clock, cycle, sigint, hourly_reminder, current_time, verVars,
                   probeVars, locVars, log, delivered, histVars>>
    /\ slept' = 0

\* lines 191 and 199: the exception reaches the except clauses of the loop
ServerExcept ==
    /\ variant = "server" /\ pc = "s_except"
    /\ pc' = ServerHandler(exc)
    /\ exc' = "none"
    /\ UNCHANGED <<variant, clock, cycle, sigint, srvVars, verVars, probeVars, locVars,
                   log, delivered, histVars>>
    /\ slept' = 0

\* lines 192-198: the 'stopped' notification, then break
ServerStopped ==
    /\ variant = "server" /\ pc = "s_kbd"
    /\ send_telegram_message("stopped")
    /\ nStopped' = nStopped + 1
    /\ pc' = "done"
    /\ UNCHANGED <<variant, clock, cycle, sigint, exc, srvVars, verVars, probeVars, locVars,
                   prevVerdict, lastNoteStart, cycleStart, sinceStart>>
    /\ slept' = 0

\* lines 200-201: the sleep after a caught cycle failure
ServerFailSleep ==
    /\ variant = "server" /\ pc = "s_fail_sleep"
    /\ clock' = clock + fail_sleep
    /\ slept' = fail_sleep
    /\ pc' = "s_top"
    /\ EndCycle
    /\ UNCHANGED <<variant, cycle, sigint, exc, srvVars, verVars, probeVars, locVars,
                   log, delivered>>

\* KeyboardInterrupt raised in the main thread (synchronous code): where
\* control goes from each position of the loop
ServerSigPoints == ProbeTryPcs \cup {"p_init", "s_decide", "s_send_status",
                                     "s_send_reminder", "s_update", "s_sleep",
                                     "s_fail_sleep"}

ServerSigint ==
    /\ variant = "server" /\ ~sigint
    /\ pc \in ServerSigPoints
    /\ sigint' = TRUE
    /\ exc' = "KeyboardInterrupt"
    /\ pc' = IF pc \in ProbeTryPcs THEN "p_finally"        \* not an Exception: finally, then out
             ELSE IF pc = "s_fail_sleep" THEN "done"       \* raised inside the handler of line 199
             ELSE "s_except"
    /\ UNCHANGED <<variant, clock, cycle, srvVars, verVars, probeVars, locVars,
                   log, delivered, histVars>>
    /\ slept' = 0

-----------------------------------------------------------------------------
(* monitoring.py: pause windows *)

\* zones ZoneInfo() knows, with the UTC offset the model gives them (no DST)
UtcOffset(tz) ==
    CASE tz = "America/New_York" -> -(5 * 3600)
      [] tz = "America/Los_Angeles" -> -(8 * 3600)
KnownZones == {"America/New_York", "America/Los_Angeles"}

\* datetime.now(tz): local seconds since the Monday 00:00 of that zone
now_in(tz, t) == t + UtcOffset(tz)
\* datetime.weekday(): Monday = 0 ... Sunday = 6
weekday(local) == (local \div 86400) % 7
\* datetime.time(): seconds since local midnight
time_of_day(local) == local % 86400
\* dt_time(hour, minute) of an "HH:MM" setting, given as <<hour, minute>>
dt_time(hm) == hm[1] * 3600 + hm[2] * 60

\* lines 37-42
is_weekend(timezone_str, t) == weekday(now_in(timezone_str, t)) >= 5

\* a variant with an exclusive upper bound
is_in_maintenance_window_HalfOpen(timezone_str, start_time, end_time, t) ==
    LET current == time_of_day(now_in(timezone_str, t))
    IN dt_time(start_time) <= current /\ current < dt_time(end_time)

\* lines 45-57
is_in_maintenance_window(timezone_str, start_time, end_time, t) ==
    LET current == time_of_day(now_in(timezone_str, t))
    IN dt_time(start_time) <= current /\ current <= dt_time(end_time)

\* the timezone and window settings is_paused reads, defaults applied (lines 65-76)
WeekendTz(cfg) == Get(cfg.weekends, "timezone", "America/New_York")
MaintTz(cfg) == Get(cfg.daily_maintenance, "timezone", "America/Los_Angeles")
MaintStart(cfg) == Get(cfg.daily_maintenance, "start_time", <<23, 45>>)
MaintEnd(cfg) == Get(cfg.daily_maintenance, "end_time", <<23, 55>>)

\* lines 60-80: "raise" (ZoneInfo rejects the zone), "weekend", "maintenance" or "no"
is_paused(cfg, t) ==
    IF DOMAIN cfg.weekends # {} /\ WeekendTz(cfg) \notin KnownZones THEN "raise"
    ELSE IF DOMAIN cfg.weekends # {} /\ is_weekend(WeekendTz(cfg), t) THEN "weekend"
    ELSE IF DOMAIN cfg.daily_maintenance # {} /\ MaintTz(cfg) \notin KnownZones THEN "raise"
    ELSE IF DOMAIN cfg.daily_maintenance # {}
            /\ is_in_maintenance_window(MaintTz(cfg), MaintStart(cfg), MaintEnd(cfg), t)
         THEN "maintenance"
    ELSE "no"

\* the config.json files explored: both windows with their defaults, no
\* window, and a weekend window naming a zone ZoneInfo does not know
LocalConfigs ==
    { [weekends |-> [enabled |-> TRUE], daily_maintenance |-> [enabled |-> TRUE],
       bot_token |-> "token", chat_id |-> "42"],
      [weekends |-> <<>>, daily_maintenance |-> <<>>,
       bot_token |-> "token", chat_id |-> "42"],
      [weekends |-> [timezone |-> "Mars/Olympus"], daily_maintenance |-> <<>>,
       bot_token |-> "token", chat_id |-> "42"] }

\* config.json files without usable credentials: an empty chat_id, and no
\* bot_token key at all
NoCredentialConfigs ==
    { [weekends |-> <<>>, daily_maintenance |-> <<>>, bot_token |-> "token", chat_id |-> ""],
      [weekends |-> <<>>, daily_maintenance |-> <<>>, chat_id |-> "42"] }

\* start instants explored: Tuesday 10:00:00 UTC; Friday 23:59:30 in New York;
\* Tuesday 23:44:30 in Los Angeles
StartInstants ==
    { T0,
      5 * 86400 + 4 * 3600 + 59 * 60 + 30,
      2 * 86400 + 7 * 3600 + 44 * 60 + 30 }

-----------------------------------------------------------------------------
(* monitoring.py: the probe, check_tws_api_health *)

\* lines 85-86: ib = IB()
LocalProbeInit ==
    /\ variant = "local" /\ pc = "lp_init"
    /\ sess' = "none" /\ ret' = None /\ faults' = {}
    /\ log' = Append(log, "probe")
    /\ pc' = "lp_connect"
    /\ UNCHANGED <<variant, clock, cycle, sigint, exc, srvVars, verVars, appVars, locVars,
                   delivered, histVars>>
    /\ slept' = 0

\* line 86 runs outside the try: an exception of the constructor leaves the probe
LocalProbeDefect ==
    /\ variant = "local" /\ pc = "lp_init"
    /\ exc' = "Exception"
    /\ pc' = "l_except"
    /\ log' = Append(log, "raise")
    /\ UNCHANGED <<variant, clock, cycle, sigint, srvVars, verVars, probeVars, locVars,
                   delivered, histVars>>
    /\ slept' = 0

\* the except clauses of lines 96-99, for an exception raised by line 88
LocalProbeCatch(kind) ==
    IF kind = "TimeoutError" THEN Verdict(FALSE, "Connection or server time request timed out")
    ELSE Verdict(FALSE, "Unexpected error")

\* line 88: await asyncio.wait_for(ib.connectAsync(...), timeout)
LocalConnect ==
    /\ variant = "local" /\ pc = "lp_connect" /\ ~cancel_pending
    /\ \/ /\ sess' = "open"                    \* connected
          /\ pc' = "lp_chk"
          /\ UNCHANGED <<ret, exc, clock, faults>>
       \/ /\ sess' = "none"                    \* returned without a connection
          /\ pc' = "lp_chk"
          /\ faults' = faults \cup {"refused"}
          /\ UNCHANGED <<ret, exc, clock>>
       \/ /\ sess' \in {"none", "open"}         \* wait_for timed out
          /\ Raised(LocalProbeCatch("TimeoutError"))
          /\ faults' = faults \cup {"conn_timeout"}
          /\ clock' = clock + timeout
          /\ pc' = "lp_finally"
       \/ /\ sess' \in {"none", "open"}         \* connection refused, transport error
          /\ Raised(LocalProbeCatch("Exception"))
          /\ faults' = faults \cup {"transport"}
          /\ pc' = "lp_finally"
          /\ UNCHANGED clock
    /\ UNCHANGED <<variant, cycle, sigint, srvVars, verVars, appVars, locVars,
                   log, delivered, histVars>>
    /\ slept' = 0

\* lines 89-90
LocalCheckConnected ==
    /\ variant = "local" /\ pc = "lp_chk"
    /\ IF ~isConnected
       THEN /\ ret' = Verdict(FALSE, "Failed to establish connection")
            /\ pc' = "lp_finally"
       ELSE /\ pc' = "lp_req"
            /\ UNCHANGED ret
    /\ UNCHANGED <<variant, clock, cycle, sigint, exc, srvVars, verVars, appVars, sess,
                   faults, locVars, log, delivered, histVars>>
    /\ slept' = 0

\* lines 91-95: the inner try around the time request, and its except clause
LocalReqCatch(kind) ==
    IF kind = "none" THEN Verdict(TRUE, "TWS API is healthy and responsive")
    ELSE Verdict(FALSE, "Failed to receive server time response")

\* the failure mode an outcome of the time request is
ReqFault(kind) ==
    CASE kind = "none" -> {}
      [] kind = "TimeoutError" -> {"req_timeout"}
      [] OTHER -> {"transport"}

\* line 92: await asyncio.wait_for(ib.reqCurrentTimeAsync(), timeout)
LocalReqCurrentTime ==
    /\ variant = "local" /\ pc = "lp_req" /\ ~cancel_pending
    /\ \E kind \in {"none", "TimeoutError", "Exception"} :
          /\ Raised(LocalReqCatch(kind))
          /\ faults' = faults \cup ReqFault(kind)
          /\ clock' = IF kind = "TimeoutError" THEN clock + timeout ELSE clock
    /\ pc' = "lp_finally"
    /\ UNCHANGED <<variant, cycle, sigint, srvVars, verVars, appVars, sess, locVars,
                   log, delivered, histVars>>
    /\ slept' = 0

\* lines 100-103, then the return of the verdict to main (line 187) or the
\* propagation of the exception in flight
LocalFinally ==
    /\ variant = "local" /\ pc = "lp_finally"
    /\ sess' = Teardown(sess, ret)
    /\ faults' = {}
    /\ IF exc = "none"
       THEN /\ is_healthy' = ret[1].ok
            /\ status_message' = ret[1].msg
            /\ log' = Append(log, "verdict")
            /\ sinceStart' = Since(IF ret[1].ok THEN "healthy" ELSE "unhealthy")
            /\ pc' = "l_verdict"
       ELSE /\ pc' = "l_except"
            /\ UNCHANGED <<verVars, log, sinceStart>>
    /\ ret' = None
    /\ UNCHANGED <<variant, clock, cycle, sigint, exc, srvVars, appVars, locVars,
                   delivered, prevVerdict, lastNoteStart, cycleStart, nStopped>>
    /\ slept' = 0

-----------------------------------------------------------------------------
(* monitoring.py: restart_tws, stop_tws_process, start_tws *)

\* what the PowerShell command does: returncode 0, another returncode, or
\* subprocess.run raising
StopOutcomes == {"ok", "nonzero", "exception"}
\* a variant without the try/except around subprocess.run
stop_tws_process_Unguarded(outcome) ==
    IF outcome = "exception" THEN None ELSE Some(outcome = "ok")

\* lines 106-119: the value returned, Some(bool) (None would mean it raises)
stop_tws_process(outcome) == Some(outcome = "ok")

\* what Popen does: it starts the batch file, or raises
StartOutcomes == {"ok", "exception"}
\* lines 122-132: the value returned, Some(bool) (None would mean it raises)
start_tws(outcome) == Some(outcome = "ok")

\* a helper returning r to restart_tws, which goes on at next; a helper that
\* raised would leave restart_tws and reach the except clauses of the loop
Helper(r, next) ==
    /\ pc' = IF r = None THEN "l_except" ELSE next
    /\ exc' = IF r = None THEN "Exception" ELSE exc

\* lines 137-146: the 'restarting' notification
RestartNotify ==
    /\ variant = "local" /\ pc = "r_notify"
    /\ send_telegram_message("restarting")
    /\ pc' = "r_stop"
    /\ UNCHANGED <<variant, clock, cycle, sigint, exc, srvVars, verVars, probeVars, locVars,
                   histVars>>
    /\ slept' = 0

\* lines 149-150: stop_tws_process(port); its result is not used
RestartStop ==
    /\ variant = "local" /\ pc = "r_stop"
    /\ \E o \in StopOutcomes :
          /\ stop_ok' = stop_tws_process(o)
          /\ Helper(stop_tws_process(o), "r_wait")
    /\ log' = Append(log, "stop")
    /\ sinceStart' = Since("stop")
    /\ UNCHANGED <<variant, clock, cycle, sigint, srvVars, verVars, probeVars,
                   config, cancel_pending, start_ok, delivered,
                   prevVerdict, lastNoteStart, cycleStart, nStopped>>
    /\ slept' = 0

\* a variant that does not await the sleep
RestartWait_NotAwaited ==
    /\ variant = "local" /\ pc = "r_wait" /\ ~cancel_pending
    /\ pc' = "r_start"
    /\ UNCHANGED <<variant, clock, cycle, sigint, exc, srvVars, verVars, probeVars, locVars,
                   log, delivered, histVars>>
    /\ slept' = 0

\* lines 153-154: await asyncio.sleep(wait_after_stop)
RestartWait ==
    /\ variant = "local" /\ pc = "r_wait" /\ ~cancel_pending
    /\ clock' = clock + wait_after_stop
    /\ slept' = wait_after_stop
    /\ log' = Append(log, "wait")
    /\ pc' = "r_start"
    /\ UNCHANGED <<variant, cycle, sigint, exc, srvVars, verVars, probeVars, locVars,
                   delivered, histVars>>

\* lines 157-158: start_tws(); its result is not used; restart_tws returns
RestartStart ==
    /\ variant = "local" /\ pc = "r_start"
    /\ \E o \in StartOutcomes :
          /\ start_ok' = start_tws(o)
          /\ Helper(start_tws(o), "l_sleep")
    /\ log' = Append(log, "start")
    /\ sinceStart' = <<"start">>
    /\ UNCHANGED <<variant, clock, cycle, sigint, srvVars, verVars, probeVars,
                   config, cancel_pending, stop_ok, delivered,
                   prevVerdict, lastNoteStart, cycleStart, nStopped>>
    /\ slept' = 0

-----------------------------------------------------------------------------
(* monitoring.py: main *)

\* lines 162-175: the 'started' notification. config["bot_token"] and
\* config["chat_id"] are read without a check: a missing key raises KeyError
\* outside the loop's try and ends main, an empty value is passed on
LocalStartup ==
    /\ variant = "local" /\ pc = "l_main"
    /\ IF {"bot_token", "chat_id"} \subseteq DOMAIN config
       THEN /\ send_telegram_message("started")
            /\ pc' = "l_top"
            /\ UNCHANGED exc
       ELSE /\ exc' = "KeyError"
            /\ pc' = "l_crashed"
            /\ UNCHANGED <<log, delivered>>
    /\ UNCHANGED <<variant, clock, cycle, sigint, srvVars, verVars, probeVars, locVars,
                   histVars>>
    /\ slept' = 0

\* a variant without the `continue` of line 184: a paused cycle goes on to the probe
PauseBranch_NoContinue(p) ==
    CASE p = "raise" -> "l_except"
      [] OTHER -> "lp_init"

\* lines 177-184 and 187: the pause check and the branch it takes
PauseBranch(p) ==
    CASE p = "raise" -> "l_except"
      [] p \in {"weekend", "maintenance"} -> "l_pause_sleep"
      [] OTHER -> "lp_init"

LocalCycleStart ==
    /\ variant = "local" /\ pc = "l_top"
    /\ cycle < MaxCycles
    /\ cycle' = cycle + 1
    /\ cycleStart' = clock
    /\ delivered' = "none"
    /\ stop_ok' = None
    /\ start_ok' = None
    /\ LET p == is_paused(config, clock)
       IN /\ pc' = PauseBranch(p)
          /\ log' = CASE p = "raise" -> <<"raise">>
                      [] p \in {"weekend", "maintenance"} -> <<"paused">>
                      [] OTHER -> <<>>
          /\ exc' = IF p = "raise" THEN "Exception" ELSE exc
    /\ UNCHANGED <<variant, clock, sigint, srvVars, verVars, probeVars, config,
                   cancel_pending, prevVerdict, lastNoteStart, nStopped, sinceStart>>
    /\ slept' = 0

\* lines 182-184: the sleep of a paused cycle, then continue
LocalPauseSleep ==
    /\ variant = "local" /\ pc = "l_pause_sleep" /\ ~cancel_pending
    /\ clock' = clock + check_interval
    /\ slept' = check_interval
    /\ pc' = "l_top"
    /\ EndCycle
    /\ UNCHANGED <<variant, cycle, sigint, exc, srvVars, verVars, probeVars, locVars,
                   log, delivered>>

\* a variant that restarts after every probe
RemediationBranch_Always(healthy) == "r_notify"

\* lines 189-193: remediation is entered when the verdict is unhealthy
RemediationBranch(healthy) == IF healthy THEN "l_sleep" ELSE "r_notify"

LocalVerdict ==
    /\ variant = "local" /\ pc = "l_verdict"
    /\ pc' = RemediationBranch(is_healthy)
    /\ UNCHANGED <<variant, clock, cycle, sigint, exc, srvVars, verVars, probeVars, locVars,
                   log, delivered, histVars>>
    /\ slept' = 0

\* a variant whose sleep is in the healthy branch alone: after a restart the
\* next cycle starts at once
LocalSleep_HealthyOnly ==
    /\ variant = "local" /\ pc = "l_sleep" /\ ~cancel_pending
    /\ clock' = IF is_healthy THEN clock + check_interval ELSE clock
    /\ slept' = IF is_healthy THEN check_interval ELSE 0
    /\ pc' = "l_top"
    /\ prevVerdict' = Some(is_healthy)
    /\ lastNoteStart' = IF CycleNotes(log) # <<>> THEN cycleStart ELSE lastNoteStart
    /\ sinceStart' = IF is_healthy THEN Since("sleep") ELSE sinceStart
    /\ UNCHANGED <<variant, cycle, sigint, exc, srvVars, verVars, probeVars, locVars,
                   log, delivered, cycleStart, nStopped>>

\* line 195: the sleep between two cycles
LocalSleep ==
    /\ variant = "local" /\ pc = "l_sleep" /\ ~cancel_pending
    /\ clock' = clock + check_interval
    /\ slept' = check_interval
    /\ pc' = "l_top"
    /\ EndCycle
    /\ UNCHANGED <<variant, cycle, sigint, exc, srvVars, verVars, probeVars, locVars,
                   log, delivered>>

\* the except clauses of the loop, lines 197 and 205; CancelledError is not an
\* Exception and matches neither, so it leaves main
LocalHandler(e) ==
    CASE e = "KeyboardInterrupt" -> "l_kbd"
      [] e = "Exception" -> "l_fail_sleep"
      [] OTHER -> "done"

LocalExcept ==
    /\ variant = "local" /\ pc = "l_except"
    /\ pc' = LocalHandler(exc)
    /\ exc' = IF LocalHandler(exc) = "done" THEN exc ELSE "none"
    /\ UNCHANGED <<variant, clock, cycle, sigint, srvVars, verVars, probeVars, locVars,
                   log, delivered, histVars>>
    /\ slept' = 0

\* lines 198-204: the 'stopped' notification, then break
LocalStopped ==
    /\ variant = "local" /\ pc = "l_kbd"
    /\ send_telegram_message("stopped")
    /\ nStopped' = nStopped + 1
    /\ pc' = "done"
    /\ UNCHANGED <<variant, clock, cycle, sigint, exc, srvVars, verVars, probeVars, locVars,
                   prevVerdict, lastNoteStart, cycleStart, sinceStart>>
    /\ slept' = 0

\* lines 206-207: the sleep after a caught cycle failure
LocalFailSleep ==
    /\ variant = "local" /\ pc = "l_fail_sleep" /\ ~cancel_pending
    /\ clock' = clock + check_interval
    /\ slept' = check_interval
    /\ pc' = "l_top"
    /\ EndCycle
    /\ UNCHANGED <<variant, cycle, sigint, exc, srvVars, verVars, probeVars, locVars,
                   log, delivered>>

\* positions where the task is suspended in an await
AwaitPcs == {"lp_connect", "lp_req", "l_pause_sleep", "r_wait", "l_sleep", "l_fail_sleep"}
\* positions where the task runs synchronous, blocking code
SyncPcs == {"r_notify", "r_stop", "r_start"}

\* where a CancelledError raised by the await at position p takes control:
\* through the probe's finally, to the loop's except clauses, or (raised
\* inside the handler of line 205) out of main
CancelTarget(p) ==
    CASE p \in {"lp_connect", "lp_req"} -> "lp_finally"
      [] p = "l_fail_sleep" -> "done"
      [] OTHER -> "l_except"

\* SIGINT while the task is suspended: asyncio.run (its SIGINT handler, or
\* its cleanup after the KeyboardInterrupt left the event loop) cancels the
\* main task, and the await raises CancelledError
LocalSigintAwait ==
    /\ variant = "local" /\ ~sigint
    /\ pc \in AwaitPcs
    /\ sigint' = TRUE
    /\ exc' = "CancelledError"
    /\ pc' = CancelTarget(pc)
    /\ UNCHANGED <<variant, clock, cycle, srvVars, verVars, probeVars, locVars,
                   log, delivered, histVars>>
    /\ slept' = 0

\* SIGINT while the task runs synchronous code: depending on the interpreter,
\* KeyboardInterrupt is raised in place (no `except Exception` catches it), or
\* the main task is cancelled and the code runs on to its next await
LocalSigintSync ==
    /\ variant = "local" /\ ~sigint
    /\ pc \in SyncPcs
    /\ sigint' = TRUE
    /\ \/ /\ exc' = "KeyboardInterrupt"
          /\ pc' = "l_except"
          /\ UNCHANGED cancel_pending
       \/ /\ cancel_pending' = TRUE
          /\ UNCHANGED <<pc, exc>>
    /\ UNCHANGED <<variant, clock, cycle, srvVars, verVars, probeVars, config, stop_ok,
                   start_ok, log, delivered, histVars>>
    /\ slept' = 0

\* the next await of a cancelled task raises CancelledError
LocalCancel ==
    /\ variant = "local" /\ cancel_pending
    /\ pc \in AwaitPcs
    /\ cancel_pending' = FALSE
    /\ exc' = "CancelledError"
    /\ pc' = CancelTarget(pc)
    /\ UNCHANGED <<variant, clock, cycle, sigint, srvVars, verVars, probeVars, config,
                   stop_ok, start_ok, log, delivered, histVars>>
    /\ slept' = 0

-----------------------------------------------------------------------------

\* the state of a daemon of variant v started at instant t with settings cfg
\* and reminder interval hr
InitState(v, t, cfg, hr) ==
    /\ variant = v
    /\ pc = IF v = "server" THEN "s_main" ELSE "l_main"
    /\ clock = t
    /\ cycle = 0
    /\ sigint = FALSE
    /\ exc = "none"
    /\ hourly_reminder = hr
    /\ previous_is_healthy = None
    /\ last_reminder_time = 0
    /\ current_time = 0
    /\ is_healthy = FALSE
    /\ status_message = ""
    /\ app_connected = FALSE
    /\ server_time = None
    /\ exception_queue = <<>>
    /\ client_thread = "none"
    /\ sess = "none"
    /\ acked = FALSE
    /\ req = "none"
    /\ polls = 0
    /\ ret = None
    /\ config = cfg
    /\ cancel_pending = FALSE
    /\ stop_ok = None
    /\ start_ok = None
    /\ faults = {}
    /\ log = <<>>
    /\ delivered = "none"
    /\ prevVerdict = None
    /\ lastNoteStart = -1
    /\ cycleStart = 0
    /\ nStopped = 0
    /\ sinceStart = <<>>
    /\ slept = 0

Init ==
    \/ \E hr \in ReminderIntervals, env \in ServerEnvs :
          InitState("server", T0, ServerConfig(env), hr)
    \/ \E t \in StartInstants, cfg \in LocalConfigs :
          InitState("local", t, cfg, HourlyReminderDefault)
    \/ \E cfg \in NoCredentialConfigs :
          InitState("local", T0, cfg, HourlyReminderDefault)

ServerNext ==
    \/ ServerValidate \/ ServerStartup \/ ServerCycleStart
    \/ ServerProbeInit \/ ServerProbeDefect \/ ServerConnect \/ ServerStartThread
    \/ ServerWaitAck \/ ServerCheckConnected \/ ServerReqCurrentTime \/ ServerWaitTime
    \/ ServerCheckQueue \/ ServerCheckTime \/ ServerFinally
    \/ connectAck \/ currentTime \/ ErrorCallback \/ run_client_error
    \/ ServerDecide \/ ServerSendStatus \/ ServerSendReminder \/ ServerUpdate
    \/ ServerSleep \/ ServerExcept \/ ServerStopped \/ ServerFailSleep
    \/ ServerSigint

LocalNext ==
    \/ LocalStartup \/ LocalCycleStart \/ LocalPauseSleep
    \/ LocalProbeInit \/ LocalProbeDefect \/ LocalConnect \/ LocalCheckConnected
    \/ LocalReqCurrentTime \/ LocalFinally \/ LocalVerdict
    \/ RestartNotify \/ RestartStop \/ RestartWait \/ RestartStart
    \/ LocalSleep \/ LocalExcept \/ LocalStopped \/ LocalFailSleep
    \/ LocalSigintAwait \/ LocalSigintSync \/ LocalCancel

Next == ServerNext \/ LocalNext

Spec == Init /\ [][Next]_vars

\* The pause check on its own: the local daemon started at instants around
\* the bounds of a daily maintenance window, running its pause check and the
\* sleep of a paused cycle

\* daily_maintenance settings explored: the defaults (23:45-23:55, Los
\* Angeles), a window in New York, one whose start is after its end, and
\* one of a single instant
GateWindows ==
    { [enabled |-> TRUE],
      [timezone |-> "America/New_York", start_time |-> <<9, 30>>, end_time |-> <<9, 31>>],
      [start_time |-> <<23, 55>>, end_time |-> <<23, 45>>],
      [start_time |-> <<0, 0>>, end_time |-> <<0, 0>>] }

\* times of day explored, in seconds: each bound of the windows above, the
\* second before and the second after, and the ends of the day
GateTimes ==
    UNION { {x - 1, x, x + 1} : x \in {34200, 34260, 85500, 86100} }
        \cup {0, 1, 86399}

GateInit ==
    \E w \in GateWindows, s \in GateTimes :
        InitState("local",
                  86400 + s - UtcOffset(Get(w, "timezone", "America/Los_Angeles")),
                  [weekends |-> <<>>, daily_maintenance |-> w,
                   bot_token |-> "token", chat_id |-> "42"],
                  HourlyReminderDefault)

GateNext == LocalStartup \/ LocalCycleStart \/ LocalPauseSleep

GateSpec == GateInit /\ [][GateNext]_vars

\* The server daemon in a scripted environment: the target's health over six
\* cycles is given, no wait runs into its timeout (a cycle advances the clock
\* by its sleep alone), nothing raises and no signal arrives

\* the verdicts of the cycles 0 .. 5
ScenarioVerdicts == <<TRUE, TRUE, FALSE, FALSE, FALSE, TRUE>>

ScenarioInit ==
    InitState("server", T0, ServerConfig([BOT_TOKEN |-> "token", CHAT_ID |-> "42"]),
              2 * normal_sleep)

\* what the scripted environment allows a step to do
ScenarioEnv ==
    /\ ~sigint' /\ exc' = "none"
    /\ clock' \in {clock, clock + normal_sleep}
    /\ (pc = "p_finally" /\ pc' = "s_decide") => is_healthy' = ScenarioVerdicts[cycle]

ScenarioNext ==
    /\ \/ ServerValidate \/ ServerStartup \/ ServerCycleStartUpTo(Len(ScenarioVerdicts))
       \/ ServerProbeInit \/ ServerConnect \/ ServerStartThread
       \/ ServerWaitAck \/ ServerCheckConnected \/ ServerReqCurrentTime \/ ServerWaitTime
       \/ ServerCheckQueue \/ ServerCheckTime \/ ServerFinally
       \/ connectAck \/ currentTime \/ ErrorCallback \/ run_client_error
       \/ ServerDecide \/ ServerSendStatus \/ ServerSendReminder \/ ServerUpdate
       \/ ServerSleep
    /\ ScenarioEnv

ScenarioSpec == ScenarioInit /\ [][ScenarioNext]_vars

\* the steps of the server's main thread (not the client thread's callbacks,
\* not the signal): the thread is scheduled, and time.sleep returns
ServerMain ==
    \/ ServerValidate \/ ServerStartup \/ ServerCycleStart
    \/ ServerProbeInit \/ ServerConnect \/ ServerStartThread
    \/ ServerWaitAck \/ ServerCheckConnected \/ ServerReqCurrentTime \/ ServerWaitTime
    \/ ServerCheckQueue \/ ServerCheckTime \/ ServerFinally
    \/ ServerDecide \/ ServerSendStatus \/ ServerSendReminder \/ ServerUpdate
    \/ ServerSleep \/ ServerExcept \/ ServerStopped \/ ServerFailSleep

\* the steps of the local daemon's task: the event loop resumes it when an
\* awaited call completes, and asyncio.wait_for / asyncio.sleep complete
LocalMain ==
    \/ LocalStartup \/ LocalCycleStart \/ LocalPauseSleep
    \/ LocalProbeInit \/ LocalConnect \/ LocalCheckConnected
    \/ LocalReqCurrentTime \/ LocalFinally \/ LocalVerdict
    \/ RestartNotify \/ RestartStop \/ RestartWait \/ RestartStart
    \/ LocalSleep \/ LocalExcept \/ LocalStopped \/ LocalFailSleep \/ LocalCancel

\* Spec with the daemon's own thread of control running on
FairSpec == Spec /\ WF_vars(ServerMain) /\ WF_vars(LocalMain)

-----------------------------------------------------------------------------
(* Properties *)

IsPrefix(a, b) == Len(a) <= Len(b) /\ a = SubSeq(b, 1, Len(a))
\* the calls of restart_tws among the logged calls
RemCalls(l) == SelectSeq(l, LAMBDA e : e \in {"restarting", "stop", "wait", "start"})
\* this iteration's probe has returned its verdict to main
HasVerdict == Count(log, "verdict") > 0

\* C1: server loop. A cycle that reaches its sleep has sent exactly one status
\* notification if it is the first cycle with a verdict or its verdict differs
\* from the previous cycle's, and none otherwise; whatever else it sent is a
\* reminder; a healthy cycle after a healthy cycle sent nothing; no cycle
\* sends more than one status / reminder notification, and none without a verdict.
C1_NotifyOnTransition ==
    (variant = "server" /\ cycle >= 1 /\ pc \notin {"s_kbd", "done"}) =>
        /\ Len(CycleNotes(log)) <= 1
        /\ ~HasVerdict => CycleNotes(log) = <<>>
        /\ pc = "s_sleep" =>
              /\ Count(log, "status") =
                    (IF prevVerdict = None \/ prevVerdict # Some(is_healthy) THEN 1 ELSE 0)
              /\ Count(log, "restarting") = 0
              /\ (is_healthy /\ prevVerdict = Some(TRUE)) => CycleNotes(log) = <<>>

\* C1 witness: an unhealthy cycle after a healthy one that sent its status notification
C1_Witness ==
    /\ variant = "server" /\ pc = "s_sleep"
    /\ prevVerdict = Some(TRUE) /\ ~is_healthy
    /\ CycleNotes(log) = <<"status">>

\* C2: server loop. In an unhealthy cycle that follows an unhealthy cycle, a
\* reminder is sent exactly when the cycle's start time minus the start time
\* of the last notifying cycle is >= hourly_reminder (equality included); a
\* reminder is sent in no other kind of cycle, at most once, and sets
\* last_reminder_time to the cycle's start time.
C2_ReminderWhenDue ==
    (variant = "server" /\ pc = "s_sleep") =>
        /\ (~is_healthy /\ prevVerdict = Some(FALSE)) =>
              (Count(log, "reminder") = 1 <=> cycleStart - lastNoteStart >= hourly_reminder)
        /\ Count(log, "reminder") <= 1
        /\ Count(log, "reminder") = 1 =>
              /\ ~is_healthy /\ prevVerdict = Some(FALSE)
              /\ last_reminder_time = cycleStart

\* C2 witness: a reminder sent when exactly hourly_reminder seconds have elapsed
C2_Witness ==
    /\ variant = "server" /\ pc = "s_sleep"
    /\ Count(log, "reminder") = 1
    /\ cycleStart - lastNoteStart = hourly_reminder

\* C3: both loops. A cycle makes at most one notification call about the
\* target's health, and an unhealthy cycle that follows an unhealthy cycle
\* makes one only if at least the reminder interval has passed since the
\* start of the last cycle that made one. (Read while the cycle runs: at the
\* top of the loop the history already counts the cycle as past.)
C3_OneNotificationPerInterval ==
    (cycle >= 1 /\ pc \notin {"s_top", "l_top", "s_kbd", "l_kbd", "done"}) =>
        /\ Len(CycleNotes(log)) <= 1
        /\ (HasVerdict /\ ~is_healthy /\ prevVerdict = Some(FALSE) /\ CycleNotes(log) # <<>>) =>
              cycleStart - lastNoteStart >= hourly_reminder

\* C4: both loops. An Exception raised inside a cycle reaches the except
\* clauses of the loop (through the probe's finally at most) and enters the
\* generic handler; the handler's sleep lasts one check interval and leads to
\* the top of the loop unless a shutdown signal ends it; the loop is left only
\* when a shutdown signal has been delivered.
C4_CycleFailureIsolated ==
    [][ /\ exc' = "Exception" => pc' \in {"s_except", "l_except", "p_finally", "lp_finally"}
        /\ (pc \in {"s_except", "l_except"} /\ exc = "Exception") =>
              pc' \in {"s_fail_sleep", "l_fail_sleep"}
        /\ (pc \in {"s_fail_sleep", "l_fail_sleep"} /\ pc' # pc) =>
              \/ sigint'
              \/ /\ pc' \in {"s_top", "l_top"}
                 /\ slept' = (IF variant = "server" THEN normal_sleep ELSE check_interval)
        /\ pc' = "done" => sigint' ]_vars

\* C4 witness: the local loop back at its top after the pause check raised
\* and the handler slept one check interval
C4_Witness ==
    /\ variant = "local" /\ pc = "l_top" /\ ~sigint
    /\ Count(log, "raise") = 1
    /\ slept = check_interval

\* C5: both loops. A daemon that has left its loop has sent the 'stopped'
\* notification exactly once.
C5_StoppedNotificationOnShutdown ==
    pc = "done" => nStopped = 1

\* C6: local loop. stop and start are called at most once per cycle, start
\* never without stop, and only in an unpaused cycle whose probe returned
\* unhealthy; a cycle that reaches its sleep called each exactly once if its
\* verdict was unhealthy and not at all if it was healthy.
C6_RemediationIffUnhealthy ==
    (variant = "local" /\ cycle >= 1) =>
        /\ Count(log, "stop") <= 1
        /\ Count(log, "start") <= Count(log, "stop")
        /\ Count(log, "stop") > 0 =>
              Count(log, "paused") = 0 /\ Count(log, "verdict") = 1 /\ ~is_healthy
        /\ pc = "l_pause_sleep" => Count(log, "stop") = 0 /\ Count(log, "probe") = 0
        /\ pc = "l_sleep" =>
              /\ Count(log, "stop") = (IF is_healthy THEN 0 ELSE 1)
              /\ Count(log, "start") = (IF is_healthy THEN 0 ELSE 1)

\* C6 witness: an unhealthy cycle at its sleep, with one stop and one start
C6_Witness ==
    /\ variant = "local" /\ pc = "l_sleep" /\ ~is_healthy
    /\ Count(log, "stop") = 1 /\ Count(log, "start") = 1

\* C7: local loop. The calls of restart_tws in a cycle are a prefix of
\* 'restarting', stop, wait, start; the probe of the cycle comes before them;
\* between stop and start the task is in restart_tws (or shutting down), so
\* no other probe starts.
C7_RemediationOrder ==
    (variant = "local" /\ cycle >= 1) =>
        /\ IsPrefix(RemCalls(log), <<"restarting", "stop", "wait", "start">>)
        /\ \A i, j \in 1..Len(log) :
              (log[i] = "stop" /\ log[j] \in {"probe", "verdict"}) => j < i
        /\ (Count(log, "stop") = 1 /\ Count(log, "start") = 0) =>
              (pc \in {"r_wait", "r_start"} \/ sigint)

\* C7 witness: a remediation that ran all four steps
C7_Witness ==
    /\ variant = "local" /\ pc = "l_sleep"
    /\ RemCalls(log) = <<"restarting", "stop", "wait", "start">>

\* C8: local loop. After a failed stop the sequence goes on: restart_tws is
\* at its wait or its start, or the cycle is at its sleep with the wait and
\* the start done (or a shutdown signal came); no Exception is in flight and
\* the failure handler is not entered in a cycle that called stop; after the
\* remediation the loop sleeps one check interval.
C8_StopFailureNotFatal ==
    (variant = "local" /\ cycle >= 1) =>
        /\ Count(log, "stop") > 0 =>
              /\ exc # "Exception" /\ pc # "l_fail_sleep"
              /\ stop_ok # None
        /\ Count(log, "start") > 0 => start_ok # None
        /\ stop_ok = Some(FALSE) =>
              (pc \in {"r_wait", "r_start", "l_sleep", "l_top"} \/ sigint)
        /\ (stop_ok = Some(FALSE) /\ pc \in {"l_sleep", "l_top"}) =>
              Count(log, "wait") = 1 /\ Count(log, "start") = 1
        /\ (pc = "l_top" /\ Count(log, "start") = 1) => slept = check_interval

\* C8 witness: back at the top of the loop after a remediation whose stop and
\* whose start both failed
C8_Witness ==
    /\ variant = "local" /\ pc = "l_top"
    /\ stop_ok = Some(FALSE) /\ start_ok = Some(FALSE)
    /\ Count(log, "start") = 1
    /\ slept = check_interval

\* the failure modes of a probe among the recorded faults (an error callback
\* is a message of the peer, not a failure of the probe's own calls)
ProbeFailures == faults \ {"error_cb"}

\* C9: both probes. A probe in which the connection was refused, the
\* transport raised, a wait_for timed out or the client thread crashed, or
\* whose peer did not acknowledge or did not answer the time request, returns
\* a negative verdict with a message; no such failure leaves the probe as an
\* Exception.
C9_ProbeFailureIsVerdict ==
    /\ exc = "Exception" => (ProbeFailures = {} /\ pc \notin {"p_finally", "lp_finally"})
    /\ (pc \in {"p_finally", "lp_finally"} /\ exc = "none") =>
          /\ ret # None
          /\ ret[1].msg # ""
          /\ (ProbeFailures # {} \/ (variant = "server" /\ (~acked \/ req # "answered"))) =>
                ~ret[1].ok

\* C9 witness: the server probe returning after a transport exception
C9_Witness ==
    /\ pc = "p_finally" /\ exc = "none"
    /\ "transport" \in faults
    /\ ~ret[1].ok

\* C10: both probes. A session is open only while its probe runs: once the
\* probe has returned or raised, the session it opened is closed.
C10_SessionClosedOnReturn ==
    sess = "open" =>
        pc \in ProbeTryPcs \cup {"p_finally", "lp_chk", "lp_req", "lp_finally"}

\* C10 witness: a probe that opened a session and returned unhealthy
C10_Witness ==
    /\ pc \in {"s_decide", "l_verdict"}
    /\ sess = "closed" /\ ~is_healthy

\* C11: server probe. Under every interleaving of the callbacks with the
\* polling loops, a verdict about to be returned is healthy only if the
\* connection was acknowledged and the time request answered, and it is
\* negative whenever the acknowledgment or the answer is missing, the client
\* thread raised before the probe read its queue, or a connection-related
\* error callback (502, 504, 1100, 326) ran before the answer arrived.
C11_HealthyOnlyAfterCleanRoundTrip ==
    (variant = "server" /\ pc = "p_finally" /\ exc = "none" /\ ret # None) =>
        /\ ret[1].ok => (acked /\ req = "answered")
        /\ (~acked \/ req # "answered" \/ "thread" \in faults \/ "error_cb" \in faults) =>
              ~ret[1].ok

\* the positions inside check_tws_api_health (either variant)
InProbe == pc \in ProbeTryPcs \cup {"p_init", "p_finally", "lp_init", "lp_connect",
                                    "lp_chk", "lp_req", "lp_finally"}

\* C12: both probes. A probe always ends (it returns or gives way to a
\* shutdown signal); a polling loop sleeps at most timeout / 0.1 times; the
\* probe's waits add up to at most one timeout when the connection is not
\* acknowledged and two otherwise; and a probe whose peer did not acknowledge,
\* did not answer, or let a timed await expire returns a negative verdict.
C12_ProbeTerminates ==
    /\ [](InProbe => /\ polls <= PollLimit
                     /\ clock - cycleStart <= 2 * timeout
                     /\ (variant = "server" /\ ~acked) => clock - cycleStart <= timeout)
    /\ []((pc \in {"p_finally", "lp_finally"} /\ exc = "none"
            /\ \/ variant = "server" /\ (~acked \/ req # "answered")
               \/ faults \cap {"conn_timeout", "req_timeout"} # {})
          => (ret # None /\ ~ret[1].ok))
    /\ (InProbe ~> ~InProbe)

\* C12 witness: a server probe returning unhealthy after both polling loops
\* ran into their timeout (acknowledged at the last moment, never answered)
C12_Witness ==
    /\ variant = "server" /\ pc = "p_finally" /\ exc = "none"
    /\ acked /\ req = "sent"
    /\ clock - cycleStart = 2 * timeout
    /\ ~ret[1].ok

\* C13: pause check with a daily maintenance window alone. A cycle is paused
\* exactly when the time of day t at its start, in the window's timezone,
\* satisfies start <= t <= end (both in seconds since midnight): paused at
\* the exact start and the exact end, not one second before or after; with
\* start > end no cycle is paused. The defaults are spelled out: 23:45:00 and
\* 23:55:00 in Los Angeles are 07:45:00 and 07:55:00 UTC.
C13_MaintenanceWindowInclusive ==
    (/\ variant = "local" /\ pc \in {"l_pause_sleep", "lp_init"}
     /\ DOMAIN config.weekends = {} /\ DOMAIN config.daily_maintenance # {}) =>
        LET w == config.daily_maintenance
            off == IF Get(w, "timezone", "America/Los_Angeles") = "America/New_York"
                   THEN 5 * 3600 ELSE 8 * 3600
            t == (cycleStart - off) % 86400
            a == IF "start_time" \in DOMAIN w
                 THEN w.start_time[1] * 3600 + w.start_time[2] * 60 ELSE 85500
            b == IF "end_time" \in DOMAIN w
                 THEN w.end_time[1] * 3600 + w.end_time[2] * 60 ELSE 86100
        IN /\ (pc = "l_pause_sleep") <=> (a <= t /\ t <= b)
           /\ a > b => pc = "lp_init"
           /\ (DOMAIN w = {"enabled"} /\ cycleStart % 86400 \in {27900, 28500}) =>
                 pc = "l_pause_sleep"
           /\ (DOMAIN w = {"enabled"} /\ cycleStart % 86400 \in {27899, 28501}) =>
                 pc = "lp_init"

\* C13 witness: a cycle paused at the exact end instant of the default window
C13_Witness ==
    /\ variant = "local" /\ pc = "l_pause_sleep"
    /\ config.daily_maintenance = [enabled |-> TRUE] /\ DOMAIN config.weekends = {}
    /\ cycleStart % 86400 = 28500

\* a required notification credential is missing or empty
CredentialsMissing ==
    IF variant = "server"
    THEN config.telegram_token = "" \/ config.chat_id = ""
    ELSE Get(config, "bot_token", "") = "" \/ Get(config, "chat_id", "") = ""

\* C14: both daemons. Started without a bot token or without a chat id, the
\* daemon makes no notification call, starts no probe and begins no cycle.
C14_RefusesToStartWithoutCredentials ==
    CredentialsMissing =>
        /\ cycle = 0
        /\ Notes(log) = <<>>
        /\ Count(log, "probe") = 0

\* C15: server loop. Whatever the outcome of a notification call (delivered,
\* HTTP error, exception inside the sender), no Exception reaches the loop,
\* and the cycle's bookkeeping is the same: last_reminder_time is the cycle's
\* start time once the cycle has made its call and the earlier value in a
\* cycle without one, and previous_is_healthy is the cycle's verdict.
C15_DeliveryFailureKeepsBookkeeping ==
    variant = "server" =>
        /\ delivered \in {"http_error", "exception"} =>
              (exc # "Exception" /\ pc # "s_fail_sleep")
        /\ (pc \in {"s_update", "s_sleep"} /\ CycleNotes(log) # <<>>) =>
              last_reminder_time = cycleStart
        /\ (pc \in {"s_update", "s_sleep"} /\ CycleNotes(log) = <<>>) =>
              last_reminder_time = lastNoteStart
        /\ pc = "s_sleep" => previous_is_healthy = Some(is_healthy)

\* C15 witness: a cycle at its sleep whose reminder was not delivered
C15_Witness ==
    /\ variant = "server" /\ pc = "s_sleep"
    /\ CycleNotes(log) = <<"reminder">>
    /\ delivered = "exception"
    /\ last_reminder_time = cycleStart

\* C16: server loop. While an Exception raised in a cycle is in flight or
\* handled, and at the top of the loop after the failure sleep,
\* previous_is_healthy and last_reminder_time are what they were when the
\* failed cycle began (the verdict of the last cycle that had one, the start
\* time of the last cycle that notified, or the initial None and 0); after
\* the sleep of fail_sleep seconds the loop is at its top with no exception
\* left, where the next cycle starts like any other.
C16_FailedCycleLeavesState ==
    (/\ variant = "server"
     /\ \/ exc = "Exception"
        \/ pc = "s_fail_sleep"
        \/ pc = "s_top" /\ Count(log, "raise") = 1) =>
        /\ previous_is_healthy = prevVerdict
        /\ last_reminder_time = (IF lastNoteStart = -1 THEN 0 ELSE lastNoteStart)
        /\ Count(log, "verdict") = 0 /\ Notes(log) = <<>>
        /\ pc = "s_top" => (exc = "none" /\ slept = fail_sleep)

\* C16 witness: back at the top of the loop after a failed cycle that
\* followed an unhealthy, notified cycle
C16_Witness ==
    /\ variant = "server" /\ pc = "s_top"
    /\ Count(log, "raise") = 1 /\ slept = fail_sleep
    /\ previous_is_healthy = Some(FALSE)
    /\ last_reminder_time = lastNoteStart /\ lastNoteStart > 0

\* C17: server loop with reminder interval = 2 x check interval, each cycle
\* one check interval after the one before, verdicts healthy, healthy,
\* unhealthy, unhealthy, unhealthy, healthy. The cycles of index 0, 2 and 5
\* send one status notification, the cycle of index 4 one reminder, the
\* cycles of index 1 and 3 nothing.
C17_ScenarioNotifications ==
    cycle >= 1 =>
        /\ cycleStart = T0 + (cycle - 1) * check_interval
        /\ (cycle - 1) \notin {0, 2, 4, 5} => CycleNotes(log) = <<>>
        /\ pc = "s_sleep" =>
              /\ is_healthy = ScenarioVerdicts[cycle]
              /\ CycleNotes(log) = CASE (cycle - 1) \in {0, 2, 5} -> <<"status">>
                                     [] (cycle - 1) = 4 -> <<"reminder">>
                                     [] OTHER -> <<>>

\* C17 witness: the sixth cycle at its sleep, its status notification sent
C17_Witness ==
    /\ pc = "s_sleep" /\ cycle = 6
    /\ is_healthy /\ prevVerdict = Some(FALSE)
    /\ CycleNotes(log) = <<"status">>
    /\ clock = T0 + 5 * check_interval

\* C18: both loops, the part a finite run can refute. Once the shutdown
\* signal has been delivered it stays in flight (as KeyboardInterrupt, as
\* CancelledError or as a pending cancellation) until the loop's shutdown
\* handler or the exit is reached, and control enters no position that
\* starts a probe, a stop_tws_process call or a start_tws call.
C18_ShutdownNotSwallowed ==
    [][ sigint =>
          /\ pc' # pc => pc' \notin {"p_init", "lp_init", "r_stop", "r_start"}
          /\ \/ exc' \in {"KeyboardInterrupt", "CancelledError"}
             \/ cancel_pending'
             \/ pc' \in {"s_kbd", "l_kbd", "done"} ]_vars

\* C19: local loop. A cycle whose pause check returned paused makes no call
\* at all (no probe, no notification, no stop, no start): it is in its sleep,
\* or back at the top of the loop after a sleep of one check interval, or a
\* shutdown signal has ended it. With the default windows, a cycle that
\* starts on a Saturday or Sunday in New York is paused.
C19_PausedCycleDoesNothing ==
    (variant = "local" /\ cycle >= 1) =>
        /\ Count(log, "paused") > 0 =>
              /\ log = <<"paused">>
              /\ delivered = "none" /\ stop_ok = None /\ start_ok = None
              /\ pc \in {"l_pause_sleep", "l_top", "l_except", "done"}
              /\ pc \in {"l_except", "done"} => sigint
              /\ pc = "l_top" => slept = check_interval
        /\ (config.weekends = [enabled |-> TRUE]
            /\ ((cycleStart - 5 * 3600) \div 86400) % 7 \in {5, 6}) =>
              Count(log, "paused") = 1
        /\ pc = "l_pause_sleep" => Count(log, "paused") = 1

\* C19 witness: back at the top of the loop after a paused cycle
C19_Witness ==
    /\ variant = "local" /\ pc = "l_top" /\ ~sigint
    /\ log = <<"paused">>
    /\ slept = check_interval

\* C20: local loop. What follows a start_tws call begins with a completed
\* sleep of one check interval (restart_tws itself probes nothing), and a
\* later stop_tws_process call comes right after an unhealthy verdict of a
\* probe run after such a sleep; in the cycle of the start nothing else is
\* called after it.
C20_RestartThenSleepThenProbe ==
    variant = "local" =>
        /\ Len(sinceStart) >= 2 => sinceStart[2] = "sleep"
        /\ \A k \in 1..Len(sinceStart) :
              sinceStart[k] = "stop" =>
                  /\ k >= 4
                  /\ sinceStart[k - 1] = "unhealthy"
                  /\ \E i \in 2..(k - 2) : sinceStart[i] = "sleep"
        /\ (cycle >= 1 /\ Count(log, "start") = 1) =>
              (log[Len(log)] = "start" /\ sinceStart[1] = "start")

\* C20 witness: a second stop, one sleep and one unhealthy probe after a start
C20_Witness ==
    /\ variant = "local" /\ pc = "r_wait"
    /\ sinceStart = <<"start", "sleep", "unhealthy", "stop">>

====
